---- MODULE Spec2Model ----
(***************************************************************************)
(* Model of j5's ArduinoHardwareBackend (j5/backends/hardware/j5/arduino.py) *)
(* as seen by a single caller: the table of digital pins, the commands the *)
(* backend puts on the serial line, and the outcome of every call.         *)
(***************************************************************************)
EXTENDS Integers, Sequences, FiniteSets, TLC

\* ------------------------------------------------------------------ bounds
\* How many of the digital pins (counted down from pin 13) the caller drives.
NumDigitalUsed == 2
\* How many identifiers of the analogue range (counted up from 14) it uses.
NumAnalogueUsed == 2
\* LED identifiers 0..MaxLed are tried.
MaxLed == 1
\* Readings and DAC/PWM values are drawn from 0..MaxValue.
MaxValue == 1
\* Threads 1..NumThreads share one backend.
NumThreads == 2
\* comports() lists at most MaxPorts serial ports.
MaxPorts == 2
\* discover() returns at most MaxDiscovers times.
MaxDiscovers == 2
\* Pins an UltrasoundSensor may be built on.
NumSensorPins == 3
\* The backend answers a time or a distance in 1..MaxAnswer, or nothing.
MaxAnswer == 2
\* The power board has the outputs 0..NumOutputs-1.
NumOutputs == 3

\* ------------------------------------------------------- program constants
FIRST_ANALOGUE_PIN == 14
FIRST_DIGITAL_PIN == 2
LED_PIN == 13

DIGITAL_INPUT == "DIGITAL_INPUT"
DIGITAL_INPUT_PULLUP == "DIGITAL_INPUT_PULLUP"
DIGITAL_INPUT_PULLDOWN == "DIGITAL_INPUT_PULLDOWN"
DIGITAL_OUTPUT == "DIGITAL_OUTPUT"
ANALOGUE_INPUT == "ANALOGUE_INPUT"
ANALOGUE_OUTPUT == "ANALOGUE_OUTPUT"

\* The members of the GPIOPinMode enumeration the repository refers to.
GPIOPinMode ==
    {DIGITAL_INPUT, DIGITAL_INPUT_PULLUP, DIGITAL_INPUT_PULLDOWN,
     DIGITAL_OUTPUT, ANALOGUE_INPUT, ANALOGUE_OUTPUT}

\* The local set of set_gpio_pin_mode.
digital_pin_modes == {DIGITAL_INPUT, DIGITAL_INPUT_PULLUP, DIGITAL_OUTPUT}

\* Outcomes of a call.
OK == "ok"
NotSupportedByHardwareError == "NotSupportedByHardwareError"
ValueError == "ValueError"
KeyError == "KeyError"
\* Errors of code outside this file: the serial port, the board's boot line,
\* the firmware version check.
SerialException == "SerialException"
BoardUnresponsive == "BoardUnresponsive"
FirmwareTooOld == "FirmwareTooOld"

NoMode == "none"

\* The keys of self._digital_pins.
DigitalPins == FIRST_DIGITAL_PIN..(FIRST_ANALOGUE_PIN - 1)

\* ------------------------------------------------------------ caller inputs
UsedDigital == (FIRST_ANALOGUE_PIN - NumDigitalUsed)..(FIRST_ANALOGUE_PIN - 1)
UsedAnalogue == FIRST_ANALOGUE_PIN..(FIRST_ANALOGUE_PIN + NumAnalogueUsed - 1)
\* 0 and 1 are below the analogue threshold but have no pin record.
Identifiers == (0..(FIRST_DIGITAL_PIN - 1)) \cup UsedDigital \cup UsedAnalogue
LedIdentifiers == 0..MaxLed
Values == 0..MaxValue

VARIABLES
    digital_pins,   \* self._digital_pins: pin -> DigitalPinData
    wire,           \* the commands the most recent call put on the serial line
    last,           \* the most recent call: operation, arguments, outcome
    mode_set,       \* history: mode of the latest successful set_gpio_pin_mode per pin
    trail,          \* history: progress through set_mode(p, output); write(p, v); get(p)
    configured,     \* history: the caller has called set_gpio_pin_mode
    phase,          \* where the backend is in its life, from construction on
    setup_log,      \* history: the steps __init__ has attempted, in order
    lock,           \* self._lock: 0 when free, else the thread holding it
    pc,             \* per thread: where it is in its call
    pending,        \* per thread: the call it is in
    t_done,         \* history: the call that completed last, and how
    ports,          \* what comports() returns
    disc_pc,        \* where discover() is
    cursor,         \* discover(): index of the next port
    boards,         \* discover(): the local set of boards
    opened,         \* history: the devices backends were constructed for
    returned,       \* history: [call |-> n, boards |-> set] per discover() that returned
    firmware_modes, \* per GPIO pin: UltrasoundSensor is in pin.firmware_modes
    sensor,         \* the UltrasoundSensor constructed last, if any
    us_last,        \* the most recent operation on the sensor
    backend_calls,  \* the UltrasoundInterface calls that operation made
    outputs,        \* PowerOutputGroup._outputs.values(): identifiers, in order
    enabled,        \* the power backend: identifier -> output enabled
    group_pc,       \* where power_on() / power_off() is
    group_call,     \* the group operation running or completed last
    requests        \* the set_power_output_enabled calls that operation made

backend_vars == <<digital_pins, wire, last, mode_set, trail, configured>>
life_vars == <<phase, setup_log>>
thread_vars == <<lock, pc, pending, t_done>>
discover_vars == <<ports, disc_pc, cursor, boards, opened, returned>>
ultrasound_vars == <<firmware_modes, sensor, us_last, backend_calls>>
power_vars == <<outputs, enabled, group_pc, group_call, requests>>

vars ==
    <<backend_vars, life_vars, thread_vars, discover_vars, ultrasound_vars,
      power_vars>>

\* ------------------------------------------------------------------ helpers
DigitalPinData(mode, state) == [mode |-> mode, state |-> state]

\* A command on the serial line, with the stored mode and state of its pin
\* at the moment it is issued.
WireCommand(cmd, identifier, mode, state) ==
    [cmd |-> cmd, pin |-> identifier, mode |-> mode, state |-> state]

\* _update_digital_pin: write the stored value of a digital pin to the board.
update_digital_pin(pins, identifier) ==
    WireCommand("update_digital_pin", identifier,
                pins[identifier].mode, pins[identifier].state)

\* _read_digital_pin: ask the board for the value of a digital pin.
read_digital_pin(pins, identifier) ==
    WireCommand("read_digital_pin", identifier,
                pins[identifier].mode, pins[identifier].state)

\* _read_analogue_pin: ask the board for the value of an analogue pin.
read_analogue_pin(identifier) ==
    WireCommand("read_analogue_pin", identifier, ANALOGUE_INPUT, FALSE)

\* What a call leaves behind: outcome, pin table, commands sent, return value.
Result(outcome, pins, cmds, ret_mode, ret_state, ret_value) ==
    [outcome |-> outcome, pins |-> pins, wire |-> cmds,
     ret_mode |-> ret_mode, ret_state |-> ret_state, ret_value |-> ret_value]

Raise(error, pins) == Result(error, pins, <<>>, NoMode, FALSE, 0)
Return(pins, cmds) == Result(OK, pins, cmds, NoMode, FALSE, 0)

\* --------------------------------------------------------------- operations
\* Variant: the inner check of the mode against digital_pin_modes is missing.
set_gpio_pin_mode_any_mode(pins, identifier, pin_mode) ==
    IF identifier < FIRST_ANALOGUE_PIN
    THEN IF identifier \notin DOMAIN pins
         THEN Raise(KeyError, pins)
         ELSE LET updated == [pins EXCEPT ![identifier].mode = pin_mode]
              IN  Return(updated, <<update_digital_pin(updated, identifier)>>)
    ELSE IF pin_mode = ANALOGUE_INPUT
         THEN Return(pins, <<>>)
         ELSE Raise(NotSupportedByHardwareError, pins)

\* Variant: the mode is stored before it is validated.
set_gpio_pin_mode_store_first(pins, identifier, pin_mode) ==
    IF identifier < FIRST_ANALOGUE_PIN
    THEN IF identifier \notin DOMAIN pins
         THEN IF pin_mode \in digital_pin_modes
              THEN Raise(KeyError, pins)
              ELSE Raise(NotSupportedByHardwareError, pins)
         ELSE LET updated == [pins EXCEPT ![identifier].mode = pin_mode]
              IN  IF pin_mode \in digital_pin_modes
                  THEN Return(updated, <<update_digital_pin(updated, identifier)>>)
                  ELSE Raise(NotSupportedByHardwareError, updated)
    ELSE IF pin_mode = ANALOGUE_INPUT
         THEN Return(pins, <<>>)
         ELSE Raise(NotSupportedByHardwareError, pins)

\* Variant: a new mode resets the stored state.
set_gpio_pin_mode_reset_state(pins, identifier, pin_mode) ==
    IF identifier < FIRST_ANALOGUE_PIN /\ pin_mode \in digital_pin_modes
    THEN IF identifier \notin DOMAIN pins
         THEN Raise(KeyError, pins)
         ELSE LET updated == [pins EXCEPT
                                  ![identifier] = DigitalPinData(pin_mode, FALSE)]
              IN  Return(updated, <<update_digital_pin(updated, identifier)>>)
    ELSE IF identifier >= FIRST_ANALOGUE_PIN /\ pin_mode = ANALOGUE_INPUT
         THEN Return(pins, <<>>)
         ELSE Raise(NotSupportedByHardwareError, pins)

set_gpio_pin_mode(pins, identifier, pin_mode) ==
    IF identifier < FIRST_ANALOGUE_PIN /\ pin_mode \in digital_pin_modes
    THEN IF identifier \notin DOMAIN pins
         THEN Raise(KeyError, pins)
         ELSE LET updated == [pins EXCEPT ![identifier].mode = pin_mode]
              IN  Return(updated, <<update_digital_pin(updated, identifier)>>)
    ELSE IF identifier >= FIRST_ANALOGUE_PIN /\ pin_mode = ANALOGUE_INPUT
         THEN Return(pins, <<>>)
         ELSE Raise(NotSupportedByHardwareError, pins)

\* Variant: the range test is <= instead of <.
get_gpio_pin_mode_off_by_one(pins, identifier) ==
    IF identifier <= FIRST_ANALOGUE_PIN
    THEN IF identifier \notin DOMAIN pins
         THEN Raise(KeyError, pins)
         ELSE Result(OK, pins, <<>>, pins[identifier].mode, FALSE, 0)
    ELSE Result(OK, pins, <<>>, ANALOGUE_INPUT, FALSE, 0)

\* Variant: the board is asked for the mode.
get_gpio_pin_mode_queried(pins, identifier) ==
    IF identifier < FIRST_ANALOGUE_PIN
    THEN IF identifier \notin DOMAIN pins
         THEN Raise(KeyError, pins)
         ELSE Result(OK, pins, <<read_digital_pin(pins, identifier)>>,
                     pins[identifier].mode, FALSE, 0)
    ELSE Result(OK, pins, <<>>, ANALOGUE_INPUT, FALSE, 0)

get_gpio_pin_mode(pins, identifier) ==
    IF identifier < FIRST_ANALOGUE_PIN
    THEN IF identifier \notin DOMAIN pins
         THEN Raise(KeyError, pins)
         ELSE Result(OK, pins, <<>>, pins[identifier].mode, FALSE, 0)
    ELSE Result(OK, pins, <<>>, ANALOGUE_INPUT, FALSE, 0)

\* Variant: the mode check is missing.
write_gpio_pin_digital_state_unchecked(pins, identifier, state) ==
    IF identifier >= FIRST_ANALOGUE_PIN
    THEN Raise(NotSupportedByHardwareError, pins)
    ELSE IF identifier \notin DOMAIN pins
    THEN Raise(KeyError, pins)
    ELSE LET updated == [pins EXCEPT ![identifier].state = state]
         IN  Return(updated, <<update_digital_pin(updated, identifier)>>)

\* Variant: the state is stored but never written to the board.
write_gpio_pin_digital_state_unsent(pins, identifier, state) ==
    IF identifier >= FIRST_ANALOGUE_PIN
    THEN Raise(NotSupportedByHardwareError, pins)
    ELSE IF identifier \notin DOMAIN pins
    THEN Raise(KeyError, pins)
    ELSE IF pins[identifier].mode # DIGITAL_OUTPUT
    THEN Raise(ValueError, pins)
    ELSE Return([pins EXCEPT ![identifier].state = state], <<>>)

\* Variant: looking up a pin without a record creates the record.
write_gpio_pin_digital_state_creating(pins, identifier, state) ==
    IF identifier >= FIRST_ANALOGUE_PIN
    THEN Raise(NotSupportedByHardwareError, pins)
    ELSE IF identifier \notin DOMAIN pins
    THEN Raise(ValueError,
               pins @@ (identifier :> DigitalPinData(DIGITAL_INPUT, FALSE)))
    ELSE IF pins[identifier].mode # DIGITAL_OUTPUT
    THEN Raise(ValueError, pins)
    ELSE LET updated == [pins EXCEPT ![identifier].state = state]
         IN  Return(updated, <<update_digital_pin(updated, identifier)>>)

write_gpio_pin_digital_state(pins, identifier, state) ==
    IF identifier >= FIRST_ANALOGUE_PIN
    THEN Raise(NotSupportedByHardwareError, pins)
    ELSE IF identifier \notin DOMAIN pins
    THEN Raise(KeyError, pins)
    ELSE IF pins[identifier].mode # DIGITAL_OUTPUT
    THEN Raise(ValueError, pins)
    ELSE LET updated == [pins EXCEPT ![identifier].state = state]
         IN  Return(updated, <<update_digital_pin(updated, identifier)>>)

\* Variant: the mode check is missing.
get_gpio_pin_digital_state_any_mode(pins, identifier) ==
    IF identifier >= FIRST_ANALOGUE_PIN
    THEN Raise(NotSupportedByHardwareError, pins)
    ELSE IF identifier \notin DOMAIN pins
    THEN Raise(KeyError, pins)
    ELSE Result(OK, pins, <<>>, NoMode, pins[identifier].state, 0)

\* Variant: the board is asked as well.
get_gpio_pin_digital_state_live(pins, identifier) ==
    IF identifier >= FIRST_ANALOGUE_PIN
    THEN Raise(NotSupportedByHardwareError, pins)
    ELSE IF identifier \notin DOMAIN pins
    THEN Raise(KeyError, pins)
    ELSE IF pins[identifier].mode # DIGITAL_OUTPUT
    THEN Raise(ValueError, pins)
    ELSE Result(OK, pins, <<read_digital_pin(pins, identifier)>>,
                NoMode, pins[identifier].state, 0)

get_gpio_pin_digital_state(pins, identifier) ==
    IF identifier >= FIRST_ANALOGUE_PIN
    THEN Raise(NotSupportedByHardwareError, pins)
    ELSE IF identifier \notin DOMAIN pins
    THEN Raise(KeyError, pins)
    ELSE IF pins[identifier].mode # DIGITAL_OUTPUT
    THEN Raise(ValueError, pins)
    ELSE Result(OK, pins, <<>>, NoMode, pins[identifier].state, 0)

\* Variant: a pin without a record is read as an input pin.
read_gpio_pin_digital_state_unrecorded(pins, identifier, board_state) ==
    IF identifier >= FIRST_ANALOGUE_PIN
    THEN Raise(NotSupportedByHardwareError, pins)
    ELSE IF identifier \notin DOMAIN pins
    THEN Result(OK, pins,
                <<WireCommand("read_digital_pin", identifier,
                              DIGITAL_INPUT, FALSE)>>,
                NoMode, board_state, 0)
    ELSE IF pins[identifier].mode \notin {DIGITAL_INPUT, DIGITAL_INPUT_PULLUP}
    THEN Raise(ValueError, pins)
    ELSE Result(OK, pins, <<read_digital_pin(pins, identifier)>>,
                NoMode, board_state, 0)

\* board_state is the value the board answers with.
read_gpio_pin_digital_state(pins, identifier, board_state) ==
    IF identifier >= FIRST_ANALOGUE_PIN
    THEN Raise(NotSupportedByHardwareError, pins)
    ELSE IF identifier \notin DOMAIN pins
    THEN Raise(KeyError, pins)
    ELSE IF pins[identifier].mode \notin {DIGITAL_INPUT, DIGITAL_INPUT_PULLUP}
    THEN Raise(ValueError, pins)
    ELSE Result(OK, pins, <<read_digital_pin(pins, identifier)>>,
                NoMode, board_state, 0)

\* Variant: the range check is missing.
read_gpio_pin_analogue_value_ungated(pins, identifier, board_value) ==
    Result(OK, pins, <<read_analogue_pin(identifier)>>,
           NoMode, FALSE, board_value)

\* board_value is the value the board answers with.
read_gpio_pin_analogue_value(pins, identifier, board_value) ==
    IF identifier < FIRST_ANALOGUE_PIN
    THEN Raise(NotSupportedByHardwareError, pins)
    ELSE Result(OK, pins, <<read_analogue_pin(identifier)>>,
                NoMode, FALSE, board_value)

write_gpio_pin_dac_value(pins, identifier, scaled_value) ==
    Raise(NotSupportedByHardwareError, pins)

\* Variant: PWM is served on output pins.
write_gpio_pin_pwm_value_implemented(pins, identifier, duty_cycle) ==
    IF identifier \in DOMAIN pins /\ pins[identifier].mode = DIGITAL_OUTPUT
    THEN Return(pins, <<update_digital_pin(pins, identifier)>>)
    ELSE Raise(NotSupportedByHardwareError, pins)

write_gpio_pin_pwm_value(pins, identifier, duty_cycle) ==
    Raise(NotSupportedByHardwareError, pins)

\* Variant: the LED is read straight from the table, whatever the pin's mode.
get_led_state_direct(pins, identifier) ==
    IF identifier # 0
    THEN Raise(ValueError, pins)
    ELSE Result(OK, pins, <<>>, NoMode, pins[LED_PIN].state, 0)

get_led_state(pins, identifier) ==
    IF identifier # 0
    THEN Raise(ValueError, pins)
    ELSE get_gpio_pin_digital_state(pins, LED_PIN)

\* Variant: the LED is mapped to the neighbouring pin.
set_led_state_wrong_pin(pins, identifier, state) ==
    IF identifier # 0
    THEN Raise(ValueError, pins)
    ELSE write_gpio_pin_digital_state(pins, LED_PIN - 1, state)

set_led_state(pins, identifier, state) ==
    IF identifier # 0
    THEN Raise(ValueError, pins)
    ELSE write_gpio_pin_digital_state(pins, LED_PIN, state)

\* ------------------------------------------------------------- construction
\* Variant: the pins are created switched on.
NewDigitalPins_on == [i \in DigitalPins |-> DigitalPinData(DIGITAL_INPUT, TRUE)]

\* The pin table __init__ builds before it talks to the board.
NewDigitalPins == [i \in DigitalPins |-> DigitalPinData(DIGITAL_INPUT, FALSE)]

\* The loop of __init__: set_gpio_pin_mode(pin, DIGITAL_INPUT) for the keys
\* from pin_number upwards, in key order.
RECURSIVE InitPinModes(_, _)
InitPinModes(acc, pin_number) ==
    IF pin_number >= FIRST_ANALOGUE_PIN
    THEN acc
    ELSE LET r == set_gpio_pin_mode(acc.pins, pin_number, DIGITAL_INPUT)
         IN  InitPinModes(Result(r.outcome, r.pins, acc.wire \o r.wire,
                                 NoMode, FALSE, 0),
                          pin_number + 1)

Constructed == InitPinModes(Return(NewDigitalPins, <<>>), FIRST_DIGITAL_PIN)

Call(op, identifier, pin_mode, state, value, r) ==
    [op |-> op, id |-> identifier, pin_mode |-> pin_mode, state |-> state,
     value |-> value, outcome |-> r.outcome, ret_mode |-> r.ret_mode,
     ret_state |-> r.ret_state, ret_value |-> r.ret_value]

NoTrail == [stage |-> 0, pin |-> 0, state |-> FALSE]

\* One step of __init__ and how it ended.
SetupStep(step, error) == [step |-> step, ok |-> (error = OK), error |-> error]

\* The steps of a construction that succeeded.
FullSetup ==
    <<SetupStep("open", OK), SetupStep("boot", OK),
      SetupStep("firmware", OK), SetupStep("pins", OK)>>

\* A serial line that has been released refuses every exchange: the call
\* raises where the code reaches its wire method, after the table update.
OnLine(r) ==
    IF phase = "Closed" /\ r.wire # <<>>
    THEN Raise(SerialException, r.pins)
    ELSE r

\* ---------------------------------------------- parts that are not running
NoPending == [op |-> "none", id |-> 0, pin_mode |-> NoMode, state |-> FALSE]
NoDone == [op |-> "none", outcome |-> OK, waited |-> FALSE, busy |-> FALSE]

ThreadsIdle ==
    /\ lock = 0
    /\ pc = <<>>
    /\ pending = <<>>
    /\ t_done = NoDone

DiscoverIdle ==
    /\ ports = <<>>
    /\ disc_pc = "idle"
    /\ cursor = 0
    /\ boards = {}
    /\ opened = <<>>
    /\ returned = <<>>

NoSensor == [built |-> FALSE, trigger |-> 0, echo |-> 0, distance_mode |-> FALSE]
Absent == [present |-> FALSE, value |-> 0]
NoSensorCall ==
    [op |-> "none", trigger |-> 0, echo |-> 0, distance_mode |-> FALSE,
     outcome |-> OK, ret |-> Absent]

UltrasoundIdle ==
    /\ firmware_modes = <<>>
    /\ sensor = NoSensor
    /\ us_last = NoSensorCall
    /\ backend_calls = <<>>

NoGroupCall == [op |-> "none", new_state |-> FALSE, outcome |-> OK]

PowerIdle ==
    /\ outputs = <<>>
    /\ enabled = <<>>
    /\ group_pc = "idle"
    /\ group_call = NoGroupCall
    /\ requests = <<>>

aside_vars == <<thread_vars, discover_vars, ultrasound_vars, power_vars>>

Init ==
    /\ digital_pins = Constructed.pins
    /\ wire = Constructed.wire
    /\ last = Call("__init__", 0, NoMode, FALSE, 0, Constructed)
    /\ mode_set = [i \in DigitalPins |-> DIGITAL_INPUT]
    /\ trail = NoTrail
    /\ configured = FALSE
    /\ phase = "Ready"
    /\ setup_log = FullSetup
    /\ ThreadsIdle
    /\ DiscoverIdle
    /\ UltrasoundIdle
    /\ PowerIdle

\* ------------------------------------------------------------------ actions
\* One call by the caller, with result r.
Do(op, identifier, pin_mode, state, value, result) ==
    LET r == OnLine(result) IN
    /\ phase \in {"Ready", "Closed"}
    /\ digital_pins' = r.pins
    /\ wire' = r.wire
    /\ last' = Call(op, identifier, pin_mode, state, value, r)
    /\ UNCHANGED <<life_vars, aside_vars>>
    /\ mode_set' =
         IF op = "set_gpio_pin_mode" /\ r.outcome = OK /\ identifier \in DigitalPins
         THEN [mode_set EXCEPT ![identifier] = pin_mode]
         ELSE mode_set
    /\ trail' =
         IF op = "set_gpio_pin_mode" /\ identifier \in DigitalPins
            /\ pin_mode = DIGITAL_OUTPUT
         THEN [stage |-> 1, pin |-> identifier, state |-> FALSE]
         ELSE IF op = "write_gpio_pin_digital_state" /\ trail.stage = 1
                 /\ identifier = trail.pin
         THEN [stage |-> 2, pin |-> identifier, state |-> state]
         ELSE IF op = "get_gpio_pin_digital_state" /\ trail.stage = 2
                 /\ identifier = trail.pin
         THEN [trail EXCEPT !.stage = 3]
         ELSE NoTrail
    /\ configured' = (configured \/ op = "set_gpio_pin_mode")

SetMode ==
    \E i \in Identifiers, m \in GPIOPinMode :
        Do("set_gpio_pin_mode", i, m, FALSE, 0,
           set_gpio_pin_mode(digital_pins, i, m))

GetMode ==
    \E i \in Identifiers :
        Do("get_gpio_pin_mode", i, NoMode, FALSE, 0,
           get_gpio_pin_mode(digital_pins, i))

WriteDigital ==
    \E i \in Identifiers, s \in BOOLEAN :
        Do("write_gpio_pin_digital_state", i, NoMode, s, 0,
           write_gpio_pin_digital_state(digital_pins, i, s))

GetDigital ==
    \E i \in Identifiers :
        Do("get_gpio_pin_digital_state", i, NoMode, FALSE, 0,
           get_gpio_pin_digital_state(digital_pins, i))

ReadDigital ==
    \E i \in Identifiers, b \in BOOLEAN :
        Do("read_gpio_pin_digital_state", i, NoMode, FALSE, 0,
           read_gpio_pin_digital_state(digital_pins, i, b))

ReadAnalogue ==
    \E i \in Identifiers, v \in Values :
        Do("read_gpio_pin_analogue_value", i, NoMode, FALSE, 0,
           read_gpio_pin_analogue_value(digital_pins, i, v))

WriteDac ==
    \E i \in Identifiers, v \in Values :
        Do("write_gpio_pin_dac_value", i, NoMode, FALSE, v,
           write_gpio_pin_dac_value(digital_pins, i, v))

WritePwm ==
    \E i \in Identifiers, v \in Values :
        Do("write_gpio_pin_pwm_value", i, NoMode, FALSE, v,
           write_gpio_pin_pwm_value(digital_pins, i, v))

GetLed ==
    \E i \in LedIdentifiers :
        Do("get_led_state", i, NoMode, FALSE, 0,
           get_led_state(digital_pins, i))

SetLed ==
    \E i \in LedIdentifiers, s \in BOOLEAN :
        Do("set_led_state", i, NoMode, s, 0,
           set_led_state(digital_pins, i, s))

Next ==
    \/ SetMode
    \/ GetMode
    \/ WriteDigital
    \/ GetDigital
    \/ ReadDigital
    \/ ReadAnalogue
    \/ WriteDac
    \/ WritePwm
    \/ GetLed
    \/ SetLed

Spec == Init /\ [][Next]_vars

\* ------------------------------------------------- a line that fails
\* Variant: the table is put back as it was before the call.
WireFails_rolled_back(pins, r) ==
    Result(SerialException, pins, r.wire, NoMode, FALSE, 0)

\* The wire method of a call raises after the command was written: the
\* exception leaves the call. pins is the table before the call, r the call
\* had the line worked.
WireFails(pins, r) ==
    Result(SerialException, r.pins, r.wire, NoMode, FALSE, 0)

\* set_gpio_pin_mode whose _update_digital_pin raises.
SetModeFails ==
    \E i \in UsedDigital, m \in digital_pin_modes :
        LET r == set_gpio_pin_mode(digital_pins, i, m) IN
            /\ r.wire # <<>>
            /\ Do("set_gpio_pin_mode", i, m, FALSE, 0,
                  WireFails(digital_pins, r))

\* write_gpio_pin_digital_state whose _update_digital_pin raises.
WriteDigitalFails ==
    \E i \in UsedDigital, s \in BOOLEAN :
        LET r == write_gpio_pin_digital_state(digital_pins, i, s) IN
            /\ r.wire # <<>>
            /\ Do("write_gpio_pin_digital_state", i, NoMode, s, 0,
                  WireFails(digital_pins, r))

\* The caller puts one of the pins it drives into some digital mode.
PrepareMode ==
    \E i \in UsedDigital, m \in digital_pin_modes :
        Do("set_gpio_pin_mode", i, m, FALSE, 0,
           set_gpio_pin_mode(digital_pins, i, m))

\* The caller writes a state to such a pin.
PrepareState ==
    \E i \in UsedDigital, s \in BOOLEAN :
        Do("write_gpio_pin_digital_state", i, NoMode, s, 0,
           write_gpio_pin_digital_state(digital_pins, i, s))

\* A single caller on a line that may fail.
NextWireFault ==
    \/ PrepareMode
    \/ PrepareState
    \/ SetModeFails
    \/ WriteDigitalFails

SpecWireFault == Init /\ [][NextWireFault]_vars

\* ------------------------------------------- ultrasound on the backend
\* Variant: the echo pin is configured before the trigger pin.
ultrasound_exchange_echo_first(pins, cmd, trigger, echo, board_value) ==
    LET listening == [pins EXCEPT ![echo].mode = DIGITAL_INPUT]
        triggered == [listening EXCEPT
                          ![trigger] = DigitalPinData(DIGITAL_OUTPUT, FALSE)]
    IN  Result(OK, triggered,
               <<WireCommand(cmd, trigger, triggered[trigger].mode,
                             triggered[trigger].state)>>,
               NoMode, FALSE, board_value)

\* get_ultrasound_pulse / get_ultrasound_distance of the backend: the
\* trigger pin becomes an output that is low, then the echo pin an input,
\* and the board is asked for the measurement (board_value).
ultrasound_exchange(pins, cmd, trigger, echo, board_value) ==
    LET triggered == [pins EXCEPT
                          ![trigger] = DigitalPinData(DIGITAL_OUTPUT, FALSE)]
        listening == [triggered EXCEPT ![echo].mode = DIGITAL_INPUT]
    IN  Result(OK, listening,
               <<WireCommand(cmd, trigger, listening[trigger].mode,
                             listening[trigger].state)>>,
               NoMode, FALSE, board_value)

\* What the board answers: 0 when the measurement timed out, 1 for an echo.
EchoAnswers == {0, 1}

\* In the record of these calls id is the trigger pin and value the echo pin.
UltrasoundPulse ==
    \E t \in UsedDigital, e \in UsedDigital, v \in EchoAnswers :
        Do("get_ultrasound_pulse", t, NoMode, FALSE, e,
           ultrasound_exchange(digital_pins, "ultrasound_pulse", t, e, v))

UltrasoundDistance ==
    \E t \in UsedDigital, e \in UsedDigital, v \in EchoAnswers :
        Do("get_ultrasound_distance", t, NoMode, FALSE, e,
           ultrasound_exchange(digital_pins, "ultrasound_distance", t, e, v))

\* A caller that sets modes, writes states and measures.
NextExchange ==
    \/ PrepareMode
    \/ PrepareState
    \/ UltrasoundPulse
    \/ UltrasoundDistance

SpecExchange == Init /\ [][NextExchange]_vars

\* ----------------------------------------------------- the backend's life
\* Nothing has been called yet.
NoCall == Call("none", 0, NoMode, FALSE, 0, Return(<<>>, <<>>))

InitLife ==
    /\ digital_pins = <<>>
    /\ wire = <<>>
    /\ last = NoCall
    /\ mode_set = [i \in DigitalPins |-> DIGITAL_INPUT]
    /\ trail = NoTrail
    /\ configured = FALSE
    /\ phase = "Disconnected"
    /\ setup_log = <<>>
    /\ ThreadsIdle
    /\ DiscoverIdle
    /\ UltrasoundIdle
    /\ PowerIdle

\* A step of __init__ that raised: the exception leaves the constructor.
SetupFails(step, error) ==
    /\ phase' = "Failed"
    /\ setup_log' = Append(setup_log, SetupStep(step, error))
    /\ last' = Call("__init__", 0, NoMode, FALSE, 0, Raise(error, digital_pins))
    /\ UNCHANGED <<digital_pins, wire, mode_set, trail, configured, aside_vars>>

SetupPasses(step, next_phase) ==
    /\ phase' = next_phase
    /\ setup_log' = Append(setup_log, SetupStep(step, OK))
    /\ UNCHANGED aside_vars

\* super().__init__ opens the serial port; then the lock and the pin table
\* are created.
OpenPort ==
    /\ phase = "Disconnected"
    /\ \/ SetupFails("open", SerialException)
       \/ /\ SetupPasses("open", "AwaitingBoot")
          /\ digital_pins' = NewDigitalPins
          /\ UNCHANGED <<wire, last, mode_set, trail, configured>>

\* self._version_line = self._verify_boot()
VerifyBoot ==
    /\ phase = "AwaitingBoot"
    /\ \/ SetupFails("boot", BoardUnresponsive)
       \/ /\ SetupPasses("boot", "VerifyingFirmware")
          /\ UNCHANGED backend_vars

\* Variant: a firmware that is too old is let through.
VerifyFirmware_ignored ==
    /\ phase = "VerifyingFirmware"
    /\ phase' = "InitialisingPins"
    /\ \E error \in {OK, FirmwareTooOld} :
           setup_log' = Append(setup_log, SetupStep("firmware", error))
    /\ UNCHANGED <<backend_vars, aside_vars>>

\* self._verify_firmware_version()
VerifyFirmware ==
    /\ phase = "VerifyingFirmware"
    /\ \/ SetupFails("firmware", FirmwareTooOld)
       \/ /\ SetupPasses("firmware", "InitialisingPins")
          /\ UNCHANGED backend_vars

\* The loop over self._digital_pins.keys(), after which __init__ returns.
InitPins ==
    /\ phase = "InitialisingPins"
    /\ LET r == InitPinModes(Return(digital_pins, <<>>), FIRST_DIGITAL_PIN) IN
           /\ digital_pins' = r.pins
           /\ wire' = r.wire
           /\ last' = Call("__init__", 0, NoMode, FALSE, 0, r)
    /\ SetupPasses("pins", "Ready")
    /\ UNCHANGED <<mode_set, trail, configured>>

\* The connection is released.
Close ==
    /\ phase = "Ready"
    /\ phase' = "Closed"
    /\ last' = Call("close", 0, NoMode, FALSE, 0, Return(digital_pins, <<>>))
    /\ wire' = <<>>
    /\ UNCHANGED <<digital_pins, mode_set, trail, configured, setup_log, aside_vars>>

\* Construction, then the calls of a single caller.
NextSetup ==
    \/ OpenPort
    \/ VerifyBoot
    \/ VerifyFirmware
    \/ InitPins
    \/ Next

SpecSetup == InitLife /\ [][NextSetup]_vars

\* The same, with the connection released at some point.
NextLife ==
    \/ NextSetup
    \/ Close

SpecLife == InitLife /\ [][NextLife]_vars

\* ------------------------------------------- several threads, one backend
Threads == 1..NumThreads
ThreadPins == {LED_PIN, FIRST_ANALOGUE_PIN}
ThreadModes == {DIGITAL_INPUT, DIGITAL_OUTPUT}
PureReads == {"get_gpio_pin_mode", "get_gpio_pin_digital_state"}

ThreadCall(op, identifier, pin_mode, state) ==
    [op |-> op, id |-> identifier, pin_mode |-> pin_mode, state |-> state]

\* The calls a thread makes.
ThreadCalls ==
    {ThreadCall("set_gpio_pin_mode", i, m, FALSE) : i \in ThreadPins, m \in ThreadModes}
    \cup {ThreadCall("write_gpio_pin_digital_state", i, NoMode, b) :
              i \in ThreadPins, b \in BOOLEAN}
    \cup {ThreadCall(op, i, NoMode, FALSE) :
              op \in {"get_gpio_pin_mode", "get_gpio_pin_digital_state",
                      "read_gpio_pin_digital_state",
                      "read_gpio_pin_analogue_value"},
              i \in ThreadPins}

\* The method's own code, up to the point where it calls its wire method
\* (r.wire is not empty exactly when it gets there).
LocalPart(pins, c) ==
    IF c.op = "set_gpio_pin_mode"
    THEN set_gpio_pin_mode(pins, c.id, c.pin_mode)
    ELSE IF c.op = "write_gpio_pin_digital_state"
    THEN write_gpio_pin_digital_state(pins, c.id, c.state)
    ELSE IF c.op = "get_gpio_pin_mode"
    THEN get_gpio_pin_mode(pins, c.id)
    ELSE IF c.op = "get_gpio_pin_digital_state"
    THEN get_gpio_pin_digital_state(pins, c.id)
    ELSE IF c.op = "read_gpio_pin_digital_state"
    THEN read_gpio_pin_digital_state(pins, c.id, FALSE)
    ELSE read_gpio_pin_analogue_value(pins, c.id, 0)

\* The command the wire method of call c writes, from the table as it is
\* when the line is taken.
WireOf(pins, c) ==
    IF c.op = "read_gpio_pin_analogue_value"
    THEN read_analogue_pin(c.id)
    ELSE IF c.op \in {"set_gpio_pin_mode", "write_gpio_pin_digital_state"}
    THEN update_digital_pin(pins, c.id)
    ELSE read_digital_pin(pins, c.id)

InitThreads ==
    /\ digital_pins = Constructed.pins
    /\ wire = <<>>
    /\ last = Call("__init__", 0, NoMode, FALSE, 0, Constructed)
    /\ mode_set = [i \in DigitalPins |-> DIGITAL_INPUT]
    /\ trail = NoTrail
    /\ configured = FALSE
    /\ phase = "Ready"
    /\ setup_log = FullSetup
    /\ lock = 0
    /\ pc = [t \in Threads |-> "idle"]
    /\ pending = [t \in Threads |-> NoPending]
    /\ t_done = NoDone
    /\ DiscoverIdle
    /\ UltrasoundIdle
    /\ PowerIdle

thread_frame ==
    <<mode_set, trail, configured, life_vars, discover_vars, ultrasound_vars,
      power_vars>>

\* Thread t calls a method and runs its code up to the wire method; a call
\* that raises or needs no exchange returns at once.
Enter(t) ==
    /\ pc[t] = "idle"
    /\ \E c \in ThreadCalls :
           LET r == LocalPart(digital_pins, c) IN
           /\ digital_pins' = r.pins
           /\ IF r.wire = <<>>
              THEN /\ last' = Call(c.op, c.id, c.pin_mode, c.state, 0, r)
                   /\ t_done' = [op |-> c.op, outcome |-> r.outcome,
                                 waited |-> FALSE, busy |-> (lock # 0)]
                   /\ UNCHANGED <<pc, pending>>
              ELSE /\ pc' = [pc EXCEPT ![t] = "waiting"]
                   /\ pending' = [pending EXCEPT ![t] = c]
                   /\ UNCHANGED <<last, t_done>>
    /\ UNCHANGED <<wire, lock, thread_frame>>

\* Variant: the line is taken without waiting for the lock.
Acquire_unguarded(t) ==
    /\ pc[t] = "waiting"
    /\ lock' = t
    /\ pc' = [pc EXCEPT ![t] = "exchange"]
    /\ wire' = wire \o <<WireOf(digital_pins, pending[t])>>
    /\ UNCHANGED <<digital_pins, last, pending, t_done, thread_frame>>

\* The wire method takes the lock and writes its command.
Acquire(t) ==
    /\ pc[t] = "waiting"
    /\ lock = 0
    /\ lock' = t
    /\ pc' = [pc EXCEPT ![t] = "exchange"]
    /\ wire' = <<WireOf(digital_pins, pending[t])>>
    /\ UNCHANGED <<digital_pins, last, pending, t_done, thread_frame>>

\* The wire method reads the board's answer and releases the lock; the call
\* returns.
Finish(t) ==
    /\ pc[t] = "exchange"
    /\ LET c == pending[t] IN
       \E b \in (IF c.op = "read_gpio_pin_digital_state" THEN BOOLEAN ELSE {FALSE}),
          v \in (IF c.op = "read_gpio_pin_analogue_value" THEN Values ELSE {0}) :
           /\ last' = Call(c.op, c.id, c.pin_mode, c.state, 0,
                           Result(OK, digital_pins, wire, NoMode, b, v))
           /\ t_done' = [op |-> c.op, outcome |-> OK,
                         waited |-> TRUE, busy |-> FALSE]
    /\ lock' = 0
    /\ pc' = [pc EXCEPT ![t] = "idle"]
    /\ pending' = [pending EXCEPT ![t] = NoPending]
    /\ wire' = <<>>
    /\ UNCHANGED <<digital_pins, thread_frame>>

NextThreads ==
    \E t \in Threads :
        \/ Enter(t)
        \/ Acquire(t)
        \/ Finish(t)

SpecThreads == InitThreads /\ [][NextThreads]_vars

\* ------------------------------------ the lock, from the constructor on
\* The constructor holds the lock under this name.
Constructor == NumThreads + 1

\* __init__ has opened the port and created the lock and the pin table.
InitLock ==
    /\ digital_pins = NewDigitalPins
    /\ wire = <<>>
    /\ last = NoCall
    /\ mode_set = [i \in DigitalPins |-> DIGITAL_INPUT]
    /\ trail = NoTrail
    /\ configured = FALSE
    /\ phase = "AwaitingBoot"
    /\ setup_log = <<SetupStep("open", OK)>>
    /\ lock = 0
    /\ pc = [t \in Threads |-> "idle"]
    /\ pending = [t \in Threads |-> NoPending]
    /\ t_done = NoDone
    /\ DiscoverIdle
    /\ UltrasoundIdle
    /\ PowerIdle

lock_frame == <<pc, pending, t_done, discover_vars, ultrasound_vars, power_vars>>

\* with self._lock:
BootEnter ==
    /\ phase = "AwaitingBoot"
    /\ lock = 0
    /\ lock' = Constructor
    /\ phase' = "Booting"
    /\ UNCHANGED <<backend_vars, setup_log, lock_frame>>

\* Variant: the lock stays held when _verify_boot raises.
BootLeave_held ==
    /\ phase = "Booting"
    /\ \/ /\ phase' = "Failed"
          /\ setup_log' = Append(setup_log, SetupStep("boot", BoardUnresponsive))
          /\ last' = Call("__init__", 0, NoMode, FALSE, 0,
                          Raise(BoardUnresponsive, digital_pins))
          /\ UNCHANGED lock
       \/ /\ phase' = "VerifyingFirmware"
          /\ setup_log' = Append(setup_log, SetupStep("boot", OK))
          /\ lock' = 0
          /\ UNCHANGED last
    /\ UNCHANGED <<digital_pins, wire, mode_set, trail, configured, lock_frame>>

\* self._version_line = self._verify_boot() returns or raises; the with
\* statement releases the lock either way.
BootLeave ==
    /\ phase = "Booting"
    /\ lock' = 0
    /\ \/ /\ phase' = "Failed"
          /\ setup_log' = Append(setup_log, SetupStep("boot", BoardUnresponsive))
          /\ last' = Call("__init__", 0, NoMode, FALSE, 0,
                          Raise(BoardUnresponsive, digital_pins))
       \/ /\ phase' = "VerifyingFirmware"
          /\ setup_log' = Append(setup_log, SetupStep("boot", OK))
          /\ UNCHANGED last
    /\ UNCHANGED <<digital_pins, wire, mode_set, trail, configured, lock_frame>>

\* The exchange of thread t fails (the line times out or breaks): the lock
\* is released and the exception leaves the call; the table is as it was.
ExchangeFails(t) ==
    /\ pc[t] = "exchange"
    /\ LET c == pending[t] IN
           /\ last' = Call(c.op, c.id, c.pin_mode, c.state, 0,
                           Raise(SerialException, digital_pins))
           /\ t_done' = [op |-> c.op, outcome |-> SerialException,
                         waited |-> TRUE, busy |-> FALSE]
    /\ lock' = 0
    /\ pc' = [pc EXCEPT ![t] = "idle"]
    /\ pending' = [pending EXCEPT ![t] = NoPending]
    /\ wire' = <<>>
    /\ UNCHANGED <<digital_pins, thread_frame>>

\* Calls are made on a backend whose constructor has returned.
NextLock ==
    \/ BootEnter
    \/ BootLeave
    \/ VerifyFirmware
    \/ InitPins
    \/ \E t \in Threads :
           /\ phase = "Ready"
           /\ \/ Enter(t)
              \/ Acquire(t)
              \/ Finish(t)
              \/ ExchangeFails(t)

SpecLock == InitLock /\ [][NextLock]_vars

\* --------------------------------------------------------------- discovery
\* An entry of comports(): its device path, its serial number, what
\* cls.is_arduino(port) answers, and how constructing a backend on it ends.
\* Distinct ports are distinct devices, with distinct serial numbers.
PortInfo(device, serial_number, arduino, fault) ==
    [device |-> device, serial_number |-> serial_number,
     arduino |-> arduino, fault |-> fault]

SetupFaults == {OK, SerialException, BoardUnresponsive, FirmwareTooOld}

PortLists ==
    UNION {
        {l \in [1..n -> [device : 1..MaxPorts, serial_number : 1..MaxPorts,
                         arduino : BOOLEAN, fault : SetupFaults]] :
            \A j, k \in 1..n :
                /\ l[j].device = j
                /\ j # k => l[j].serial_number # l[k].serial_number}
        : n \in 0..MaxPorts}

\* cls(port.device, serial_class), constructed by the call-th discover().
Backend(device, call) == [device |-> device, call |-> call]

\* cls.board(port.serial_number, backend)
Board(serial, backend) == [serial |-> serial, backend |-> backend]

\* Boards are the same board when their serial numbers match.
BoardEq(a, b) == a.serial = b.serial

\* boards.add(board)
SetAdd(bs, board) ==
    IF \E b \in bs : BoardEq(b, board) THEN bs ELSE bs \cup {board}

\* Variant: the is_arduino filter is missing.
discover_port_unfiltered(bs, port, call) ==
    IF port.fault # OK
    THEN [outcome |-> port.fault, boards |-> bs, constructed |-> TRUE]
    ELSE [outcome |-> OK, constructed |-> TRUE,
          boards |-> SetAdd(bs, Board(port.serial_number,
                                      Backend(port.device, call)))]

\* One turn of the loop of discover() over comports(), filter included.
discover_port(bs, port, call) ==
    IF ~port.arduino
    THEN [outcome |-> OK, boards |-> bs, constructed |-> FALSE]
    ELSE IF port.fault # OK
    THEN [outcome |-> port.fault, boards |-> bs, constructed |-> TRUE]
    ELSE [outcome |-> OK, constructed |-> TRUE,
          boards |-> SetAdd(bs, Board(port.serial_number,
                                      Backend(port.device, call)))]

discover_frame ==
    <<backend_vars, life_vars, thread_vars, ultrasound_vars, power_vars>>

InitDiscover ==
    /\ digital_pins = <<>>
    /\ wire = <<>>
    /\ last = NoCall
    /\ mode_set = [i \in DigitalPins |-> DIGITAL_INPUT]
    /\ trail = NoTrail
    /\ configured = FALSE
    /\ phase = "Disconnected"
    /\ setup_log = <<>>
    /\ ThreadsIdle
    /\ UltrasoundIdle
    /\ PowerIdle
    /\ ports \in PortLists
    /\ disc_pc = "idle"
    /\ cursor = 0
    /\ boards = {}
    /\ opened = <<>>
    /\ returned = <<>>

\* discover() is called: ports = comports(); boards = set()
StartDiscover ==
    /\ disc_pc \in {"idle", "returned", "raised"}
    /\ Len(returned) < MaxDiscovers
    /\ disc_pc' = "running"
    /\ cursor' = 1
    /\ boards' = {}
    /\ opened' = <<>>
    /\ UNCHANGED <<ports, returned, discover_frame>>

\* The loop reaches the next port; an exception of the constructor leaves
\* discover().
VisitPort ==
    /\ disc_pc = "running"
    /\ cursor <= Len(ports)
    /\ LET r == discover_port(boards, ports[cursor], Len(returned) + 1) IN
           /\ boards' = r.boards
           /\ opened' = IF r.constructed
                        THEN Append(opened, ports[cursor].device)
                        ELSE opened
           /\ disc_pc' = IF r.outcome = OK THEN "running" ELSE "raised"
    /\ cursor' = cursor + 1
    /\ UNCHANGED <<ports, returned, discover_frame>>

\* return boards
ReturnBoards ==
    /\ disc_pc = "running"
    /\ cursor > Len(ports)
    /\ disc_pc' = "returned"
    /\ returned' = Append(returned, boards)
    /\ UNCHANGED <<ports, cursor, boards, opened, discover_frame>>

NextDiscover ==
    \/ StartDiscover
    \/ VisitPort
    \/ ReturnBoards

SpecDiscover == InitDiscover /\ [][NextDiscover]_vars

\* ------------------------------------------------------- ultrasound sensor
NotSupportedByComponentError == "NotSupportedByComponentError"
Exception == "Exception"

SensorPins == FIRST_DIGITAL_PIN..(FIRST_DIGITAL_PIN + NumSensorPins - 1)

\* Optional[timedelta] and Optional[float]: Absent is None.
Answers == {Absent} \cup {[present |-> TRUE, value |-> v] : v \in 1..MaxAnswer}

BackendCall(fn, trigger, echo, answer) ==
    [fn |-> fn, trigger |-> trigger, echo |-> echo, answer |-> answer]

Sensor(trigger, echo, distance_mode) ==
    [built |-> TRUE, trigger |-> trigger, echo |-> echo,
     distance_mode |-> distance_mode]

SensorResult(outcome, calls, ret) ==
    [outcome |-> outcome, calls |-> calls, ret |-> ret]

\* Variant: one supporting pin is enough.
UltrasoundSensor_init_either(fm, gpio_trigger, gpio_echo, distance_mode) ==
    IF ~fm[gpio_trigger] /\ ~fm[gpio_echo]
    THEN [outcome |-> NotSupportedByComponentError, sensor |-> NoSensor,
          calls |-> <<>>]
    ELSE [outcome |-> OK, calls |-> <<>>,
          sensor |-> Sensor(gpio_trigger, gpio_echo, distance_mode)]

\* UltrasoundSensor.__init__; fm[p] is
\* "UltrasoundSensor in <pin p>.firmware_modes".
UltrasoundSensor_init(fm, gpio_trigger, gpio_echo, distance_mode) ==
    IF ~fm[gpio_trigger] \/ ~fm[gpio_echo]
    THEN [outcome |-> NotSupportedByComponentError, sensor |-> NoSensor,
          calls |-> <<>>]
    ELSE [outcome |-> OK, calls |-> <<>>,
          sensor |-> Sensor(gpio_trigger, gpio_echo, distance_mode)]

\* UltrasoundSensor.pulse; self reaches the firmware modes of its pins (fm)
\* and the backend, which gives answer.
pulse(self, fm, answer) ==
    SensorResult(OK,
                 <<BackendCall("get_ultrasound_pulse",
                               self.trigger, self.echo, answer)>>,
                 answer)

\* Variant: the mode flag is ignored.
distance_always(self, fm, answer) ==
    SensorResult(OK,
                 <<BackendCall("get_ultrasound_distance",
                               self.trigger, self.echo, answer)>>,
                 answer)

\* UltrasoundSensor.distance
distance(self, fm, answer) ==
    IF ~self.distance_mode
    THEN SensorResult(Exception, <<>>, Absent)
    ELSE SensorResult(OK,
                      <<BackendCall("get_ultrasound_distance",
                                    self.trigger, self.echo, answer)>>,
                      answer)

SensorCall(op, trigger, echo, distance_mode, outcome, ret) ==
    [op |-> op, trigger |-> trigger, echo |-> echo,
     distance_mode |-> distance_mode, outcome |-> outcome, ret |-> ret]

ultrasound_frame ==
    <<backend_vars, life_vars, thread_vars, discover_vars, power_vars>>

\* A constructed backend, its pins with their firmware modes, no sensor yet.
InitUltrasound ==
    /\ digital_pins = Constructed.pins
    /\ wire = Constructed.wire
    /\ last = NoCall
    /\ mode_set = [i \in DigitalPins |-> DIGITAL_INPUT]
    /\ trail = NoTrail
    /\ configured = FALSE
    /\ phase = "Ready"
    /\ setup_log = FullSetup
    /\ ThreadsIdle
    /\ DiscoverIdle
    /\ PowerIdle
    /\ firmware_modes \in [SensorPins -> BOOLEAN]
    /\ sensor = NoSensor
    /\ us_last = NoSensorCall
    /\ backend_calls = <<>>

\* UltrasoundSensor(gpio_trigger, gpio_echo, backend, distance_mode=...);
\* a failed construction leaves the sensor built before in place.
Construct ==
    \E gpio_trigger \in SensorPins, gpio_echo \in SensorPins,
       distance_mode \in BOOLEAN :
        LET r == UltrasoundSensor_init(firmware_modes, gpio_trigger, gpio_echo,
                                       distance_mode) IN
            /\ sensor' = IF r.outcome = OK THEN r.sensor ELSE sensor
            /\ backend_calls' = r.calls
            /\ us_last' = SensorCall("construct", gpio_trigger, gpio_echo,
                                     distance_mode, r.outcome, Absent)
            /\ UNCHANGED <<firmware_modes, ultrasound_frame>>

SensorDo(op, r) ==
    /\ backend_calls' = r.calls
    /\ us_last' = SensorCall(op, sensor.trigger, sensor.echo,
                             sensor.distance_mode, r.outcome, r.ret)
    /\ UNCHANGED <<firmware_modes, sensor, ultrasound_frame>>

Pulse ==
    /\ sensor.built
    /\ \E answer \in Answers :
           SensorDo("pulse", pulse(sensor, firmware_modes, answer))

Distance ==
    /\ sensor.built
    /\ \E answer \in Answers :
           SensorDo("distance", distance(sensor, firmware_modes, answer))

NextUltrasound ==
    \/ Construct
    \/ Pulse
    \/ Distance

SpecUltrasound == InitUltrasound /\ [][NextUltrasound]_vars

\* ------------------------------------------------------- power outputs
OutputIds == 0..(NumOutputs - 1)

\* The groups a program builds: some of the board's outputs, each once, in
\* the order _outputs.values() yields them.
OutputGroups ==
    UNION {{g \in [1..n -> OutputIds] :
                \A j, k \in 1..n : j # k => g[j] # g[k]}
           : n \in 0..NumOutputs}

\* The power backend keeps what was set and answers with it.
set_power_output_enabled(en, identifier, new_state) ==
    [en EXCEPT ![identifier] = new_state]

get_power_output_enabled(en, identifier) == en[identifier]

\* PowerOutput.is_enabled, getter and setter.
is_enabled(en, identifier) == get_power_output_enabled(en, identifier)

is_enabled_set(en, identifier, new_state) ==
    set_power_output_enabled(en, identifier, new_state)

PowerRequest(identifier, new_state) ==
    [identifier |-> identifier, enabled |-> new_state]

GroupResult(outcome, en, reqs) ==
    [outcome |-> outcome, enabled |-> en, requests |-> reqs]

\* Variant: the loop goes on after an output for which the backend raised.
RECURSIVE for_each_output_past_failure(_, _, _, _, _)
for_each_output_past_failure(acc, outs, k, new_state, fault_at) ==
    IF k > Len(outs)
    THEN acc
    ELSE LET reqs == Append(acc.requests, PowerRequest(outs[k], new_state))
         IN  IF k = fault_at
             THEN for_each_output_past_failure(
                      GroupResult(SerialException, acc.enabled, reqs),
                      outs, k + 1, new_state, fault_at)
             ELSE for_each_output_past_failure(
                      GroupResult(acc.outcome,
                                  is_enabled_set(acc.enabled, outs[k], new_state),
                                  reqs),
                      outs, k + 1, new_state, fault_at)

\* for output in self._outputs.values(): output.is_enabled = new_state,
\* from the k-th output on; the backend raises for the fault_at-th output
\* (for none when fault_at is 0) and the exception leaves the loop.
RECURSIVE for_each_output(_, _, _, _, _)
for_each_output(acc, outs, k, new_state, fault_at) ==
    IF k > Len(outs)
    THEN acc
    ELSE LET reqs == Append(acc.requests, PowerRequest(outs[k], new_state))
         IN  IF k = fault_at
             THEN GroupResult(SerialException, acc.enabled, reqs)
             ELSE for_each_output(
                      GroupResult(OK,
                                  is_enabled_set(acc.enabled, outs[k], new_state),
                                  reqs),
                      outs, k + 1, new_state, fault_at)

\* PowerOutputGroup.power_on
power_on(en, outs, fault_at) ==
    for_each_output(GroupResult(OK, en, <<>>), outs, 1, TRUE, fault_at)

\* PowerOutputGroup.power_off
power_off(en, outs, fault_at) ==
    for_each_output(GroupResult(OK, en, <<>>), outs, 1, FALSE, fault_at)

power_frame ==
    <<backend_vars, life_vars, thread_vars, discover_vars, ultrasound_vars>>

\* A constructed backend and a PowerOutputGroup over some of its outputs.
InitPower ==
    /\ digital_pins = Constructed.pins
    /\ wire = Constructed.wire
    /\ last = NoCall
    /\ mode_set = [i \in DigitalPins |-> DIGITAL_INPUT]
    /\ trail = NoTrail
    /\ configured = FALSE
    /\ phase = "Ready"
    /\ setup_log = FullSetup
    /\ ThreadsIdle
    /\ DiscoverIdle
    /\ UltrasoundIdle
    /\ outputs \in OutputGroups
    /\ enabled \in [OutputIds -> BOOLEAN]
    /\ group_pc = "idle"
    /\ group_call = NoGroupCall
    /\ requests = <<>>

GroupDo(op, new_state, r) ==
    /\ enabled' = r.enabled
    /\ requests' = r.requests
    /\ group_call' = [op |-> op, new_state |-> new_state, outcome |-> r.outcome]
    /\ group_pc' = IF r.outcome = OK THEN "returned" ELSE "raised"
    /\ UNCHANGED <<outputs, power_frame>>

PowerOn ==
    \E fault_at \in 0..Len(outputs) :
        GroupDo("power_on", TRUE, power_on(enabled, outputs, fault_at))

PowerOff ==
    \E fault_at \in 0..Len(outputs) :
        GroupDo("power_off", FALSE, power_off(enabled, outputs, fault_at))

\* group[index].is_enabled = new_state, on one output of the group.
SetOutput ==
    \E k \in 1..Len(outputs), new_state \in BOOLEAN :
        GroupDo("is_enabled", new_state,
                GroupResult(OK, is_enabled_set(enabled, outputs[k], new_state),
                            <<PowerRequest(outputs[k], new_state)>>))

NextPower ==
    \/ PowerOn
    \/ PowerOff
    \/ SetOutput

SpecPower == InitPower /\ [][NextPower]_vars

TypeOK ==
    /\ digital_pins \in [DigitalPins -> [mode : GPIOPinMode, state : BOOLEAN]]
    /\ \A k \in 1..Len(wire) : wire[k].pin \in Identifiers \cup DigitalPins
    /\ last.outcome \in {OK, NotSupportedByHardwareError, ValueError, KeyError}
    /\ trail.stage \in 0..3

\* ------------------------------------------------------------------ claims
IsWrite(op) == op \in {"write_gpio_pin_digital_state", "set_led_state"}
InputModes == {DIGITAL_INPUT, DIGITAL_INPUT_PULLUP}

\* C1: every command on the serial line is compatible with the stored mode of
\* its pin when it is issued: a state write (the update sent by
\* write_gpio_pin_digital_state, directly or through set_led_state) only for a
\* digital pin whose stored mode is output, a live digital read only for a
\* digital pin in an input mode, an analogue read only for an identifier of
\* the analogue range.
C1_WireCompatibleWithMode ==
    \A k \in 1..Len(wire) :
        LET c == wire[k] IN
        /\ (c.cmd = "update_digital_pin" /\ IsWrite(last.op)) =>
               /\ c.pin \in DigitalPins
               /\ c.mode = DIGITAL_OUTPUT
               /\ digital_pins[c.pin].mode = DIGITAL_OUTPUT
        /\ c.cmd = "read_digital_pin" =>
               /\ c.pin \in DigitalPins
               /\ c.mode \in InputModes
               /\ digital_pins[c.pin].mode \in InputModes
        /\ c.cmd = "read_analogue_pin" => c.pin >= FIRST_ANALOGUE_PIN

C1_Witness ==
    /\ last.op = "write_gpio_pin_digital_state"
    /\ Len(wire) = 1
    /\ wire[1].cmd = "update_digital_pin"
    /\ wire[1].state = TRUE

\* C2: on a digital pin write_gpio_pin_digital_state succeeds exactly when the
\* stored mode of the pin is output and raises ValueError otherwise; on
\* success the stored state of the pin is the value written and one command
\* is sent.
C2_WriteIffOutput ==
    [][\A p \in DigitalPins :
          (last'.op = "write_gpio_pin_digital_state" /\ last'.id = p) =>
              /\ last'.outcome = OK <=> digital_pins[p].mode = DIGITAL_OUTPUT
              /\ last'.outcome # OK => last'.outcome = ValueError
              /\ last'.outcome = OK =>
                     /\ digital_pins'[p].state = last'.state
                     /\ Len(wire') = 1
                     /\ wire'[1].cmd = "update_digital_pin"
                     /\ wire'[1].pin = p]_vars

C2_Witness ==
    /\ last.op = "write_gpio_pin_digital_state"
    /\ last.outcome = OK
    /\ last.state = TRUE
    /\ last.id \in DigitalPins
    /\ digital_pins[last.id].state = TRUE
    /\ Len(wire) = 1

\* C3: on a digital pin the last-written read succeeds exactly when the stored
\* mode is output, returns the stored state and sends nothing; the live read
\* succeeds exactly when the stored mode is input or input-pulled-up and sends
\* one read; both raise ValueError otherwise.
C3_DigitalReadsByMode ==
    [][\A p \in DigitalPins :
          /\ (last'.op = "get_gpio_pin_digital_state" /\ last'.id = p) =>
                 /\ last'.outcome = OK <=> digital_pins[p].mode = DIGITAL_OUTPUT
                 /\ last'.outcome # OK => last'.outcome = ValueError
                 /\ last'.outcome = OK => last'.ret_state = digital_pins[p].state
                 /\ wire' = <<>>
          /\ (last'.op = "read_gpio_pin_digital_state" /\ last'.id = p) =>
                 /\ last'.outcome = OK <=> digital_pins[p].mode \in InputModes
                 /\ last'.outcome # OK => last'.outcome = ValueError
                 /\ last'.outcome = OK =>
                        /\ Len(wire') = 1
                        /\ wire'[1].cmd = "read_digital_pin"
                        /\ wire'[1].pin = p]_vars

C3_Witness ==
    /\ last.op = "get_gpio_pin_digital_state"
    /\ last.outcome = OK
    /\ last.ret_state = TRUE
    /\ wire = <<>>

\* The effect of a successful set_gpio_pin_mode on a digital pin.
ModeStored(p, m) ==
    /\ last'.outcome = OK
    /\ digital_pins' = [digital_pins EXCEPT ![p].mode = m]
    /\ Len(wire') = 1
    /\ wire'[1].cmd = "update_digital_pin"
    /\ wire'[1].pin = p
    /\ wire'[1].mode = m

NoEffect == digital_pins' = digital_pins /\ wire' = <<>>

\* C4 as stated: a digital pin with a digital mode succeeds and stores the
\* mode; an analogue identifier with analogue-input succeeds without effect;
\* every other combination raises NotSupportedByHardwareError.
C4_Original ==
    [][last'.op = "set_gpio_pin_mode" =>
          IF last'.id \in DigitalPins /\ last'.pin_mode \in digital_pin_modes
          THEN ModeStored(last'.id, last'.pin_mode)
          ELSE IF last'.id >= FIRST_ANALOGUE_PIN /\ last'.pin_mode = ANALOGUE_INPUT
          THEN last'.outcome = OK /\ NoEffect
          ELSE last'.outcome = NotSupportedByHardwareError]_vars

\* C4 (amended): as C4, except that an identifier below the analogue threshold
\* without a pin record, given a digital mode, raises KeyError (without
\* effect); every remaining combination raises NotSupportedByHardwareError.
C4_SetModeOutcomes ==
    [][last'.op = "set_gpio_pin_mode" =>
          IF last'.id \in DigitalPins /\ last'.pin_mode \in digital_pin_modes
          THEN ModeStored(last'.id, last'.pin_mode)
          ELSE IF last'.id >= FIRST_ANALOGUE_PIN /\ last'.pin_mode = ANALOGUE_INPUT
          THEN last'.outcome = OK /\ NoEffect
          ELSE IF last'.id < FIRST_ANALOGUE_PIN /\ last'.id \notin DigitalPins
                  /\ last'.pin_mode \in digital_pin_modes
          THEN last'.outcome = KeyError /\ NoEffect
          ELSE last'.outcome = NotSupportedByHardwareError]_vars

C4_Witness ==
    /\ last.op = "set_gpio_pin_mode"
    /\ last.id < FIRST_DIGITAL_PIN
    /\ last.pin_mode = DIGITAL_OUTPUT
    /\ last.outcome = KeyError
    /\ \E p \in DigitalPins : digital_pins[p].mode = DIGITAL_INPUT_PULLUP

\* C5: the range of the identifier decides before the mode does: the three
\* digital operations raise NotSupportedByHardwareError on every identifier
\* of the analogue range, the analogue read raises it on every identifier
\* below the range, and on an analogue identifier it sends one read.
C5_RangeGating ==
    /\ (last.op \in {"write_gpio_pin_digital_state", "get_gpio_pin_digital_state",
                     "read_gpio_pin_digital_state"}
        /\ last.id >= FIRST_ANALOGUE_PIN) =>
           last.outcome = NotSupportedByHardwareError
    /\ (last.op = "read_gpio_pin_analogue_value" /\ last.id < FIRST_ANALOGUE_PIN) =>
           last.outcome = NotSupportedByHardwareError
    /\ (last.op = "read_gpio_pin_analogue_value" /\ last.id >= FIRST_ANALOGUE_PIN) =>
           /\ last.outcome = OK
           /\ Len(wire) = 1
           /\ wire[1].cmd = "read_analogue_pin"
           /\ wire[1].pin = last.id

C5_Witness ==
    /\ last.op = "read_gpio_pin_analogue_value"
    /\ last.id \in DigitalPins
    /\ digital_pins[last.id].mode = DIGITAL_OUTPUT
    /\ last.outcome = NotSupportedByHardwareError

\* C6: a call that raises NotSupportedByHardwareError or ValueError sends
\* nothing and leaves the mode and state of every pin as they were.
C6_FailureHasNoEffect ==
    [][last'.outcome \in {NotSupportedByHardwareError, ValueError} =>
          NoEffect]_vars

C6_Witness ==
    /\ last.op = "set_gpio_pin_mode"
    /\ last.id \in DigitalPins
    /\ last.pin_mode = ANALOGUE_INPUT
    /\ last.outcome = NotSupportedByHardwareError
    /\ digital_pins[last.id].mode = DIGITAL_OUTPUT
    /\ digital_pins[last.id].state = TRUE

\* C7: set_gpio_pin_mode(p, output), then write_gpio_pin_digital_state(p, v),
\* then get_gpio_pin_digital_state(p): the read returns v and sends nothing.
C7_RoundTrip ==
    trail.stage = 3 =>
        /\ last.op = "get_gpio_pin_digital_state"
        /\ last.id = trail.pin
        /\ last.outcome = OK
        /\ last.ret_state = trail.state
        /\ wire = <<>>

C7_Witness ==
    /\ trail.stage = 3
    /\ trail.state = TRUE
    /\ last.ret_state = TRUE

C9_NoDacNoPwm ==
    last.op \in {"write_gpio_pin_dac_value", "write_gpio_pin_pwm_value"} =>
        last.outcome = NotSupportedByHardwareError /\ wire = <<>>

C9_Witness ==
    /\ last.op = "write_gpio_pin_pwm_value"
    /\ last.id \in DigitalPins
    /\ digital_pins[last.id].mode = DIGITAL_OUTPUT
    /\ last.value = MaxValue
    /\ last.outcome = NotSupportedByHardwareError

\* C10: LED 0 is digital pin 13: get_led_state(0) gives the stored state of
\* pin 13 when its mode is output and ValueError otherwise, sending nothing;
\* set_led_state(0, s) stores s as the state of pin 13 and sends its update
\* when the mode of pin 13 is output, and raises ValueError without effect
\* otherwise; every other LED identifier raises ValueError without effect.
C10_LedIsPin13 ==
    [][/\ (last'.op = "get_led_state" /\ last'.id = 0) =>
              /\ NoEffect
              /\ IF digital_pins[LED_PIN].mode = DIGITAL_OUTPUT
                 THEN /\ last'.outcome = OK
                      /\ last'.ret_state = digital_pins[LED_PIN].state
                 ELSE last'.outcome = ValueError
       /\ (last'.op = "set_led_state" /\ last'.id = 0) =>
              IF digital_pins[LED_PIN].mode = DIGITAL_OUTPUT
              THEN /\ last'.outcome = OK
                   /\ digital_pins' =
                          [digital_pins EXCEPT ![LED_PIN].state = last'.state]
                   /\ wire' = <<update_digital_pin(digital_pins', LED_PIN)>>
              ELSE last'.outcome = ValueError /\ NoEffect
       /\ (last'.op \in {"get_led_state", "set_led_state"} /\ last'.id # 0) =>
              last'.outcome = ValueError /\ NoEffect]_vars

C10_Witness ==
    /\ last.op = "set_led_state"
    /\ last.id = 0
    /\ last.outcome = OK
    /\ last.state = TRUE
    /\ digital_pins[LED_PIN].state = TRUE
    /\ wire = <<update_digital_pin(digital_pins, LED_PIN)>>

IsLed0(call, op) == call.op = op /\ call.id = 0

\* C11 as stated: on a freshly constructed backend, before the caller has made
\* any set_gpio_pin_mode call, get_led_state(0) returns false, and
\* set_led_state(0, s) succeeds and a following get_led_state(0) returns s.
C11_Original ==
    [][~configured =>
          /\ (last.op = "__init__" /\ IsLed0(last', "get_led_state")) =>
                 last'.outcome = OK /\ last'.ret_state = FALSE
          /\ IsLed0(last', "set_led_state") => last'.outcome = OK
          /\ (IsLed0(last, "set_led_state") /\ IsLed0(last', "get_led_state")) =>
                 last'.outcome = OK /\ last'.ret_state = last.state]_vars

\* C11 (amended): before the caller has made any set_gpio_pin_mode call, pin
\* 13 is a digital input, so get_led_state(0) and set_led_state(0, s) raise
\* ValueError and leave the stored state of pin 13 false; while the stored
\* mode of pin 13 is output, set_led_state(0, s) succeeds and a following
\* get_led_state(0) returns s.
C11_FreshLedNeedsOutput ==
    [][/\ (~configured /\ (IsLed0(last', "get_led_state")
                           \/ IsLed0(last', "set_led_state"))) =>
              /\ last'.outcome = ValueError
              /\ NoEffect
              /\ digital_pins'[LED_PIN].state = FALSE
       /\ (digital_pins[LED_PIN].mode = DIGITAL_OUTPUT
           /\ IsLed0(last', "set_led_state")) =>
              last'.outcome = OK
       /\ (IsLed0(last, "set_led_state") /\ last.outcome = OK
           /\ IsLed0(last', "get_led_state")) =>
              last'.outcome = OK /\ last'.ret_state = last.state]_vars

C11_Witness ==
    /\ ~configured
    /\ IsLed0(last, "set_led_state")
    /\ last.state = TRUE
    /\ last.outcome = ValueError
    /\ digital_pins[LED_PIN] = DigitalPinData(DIGITAL_INPUT, FALSE)

C11_WitnessOutput ==
    /\ configured
    /\ IsLed0(last, "get_led_state")
    /\ last.outcome = OK
    /\ last.ret_state = TRUE

SetupOrder == <<"open", "boot", "firmware", "pins">>
Passed(step) == \E k \in 1..Len(setup_log) : setup_log[k] = SetupStep(step, OK)

\* C12: when construction has completed, every digital pin 2..13 is stored as
\* digital-input with state false, and the constructor has sent exactly one
\* mode command for each of these twelve pins and none for any other pin.
C12_ConstructedPins ==
    (phase = "Ready" /\ last.op = "__init__") =>
        /\ last.outcome = OK
        /\ DOMAIN digital_pins = DigitalPins
        /\ \A p \in DigitalPins :
               /\ digital_pins[p] = DigitalPinData(DIGITAL_INPUT, FALSE)
               /\ Cardinality({k \in 1..Len(wire) : wire[k].pin = p}) = 1
        /\ Len(wire) = Cardinality(DigitalPins)
        /\ Len(wire) = 12
        /\ \A k \in 1..Len(wire) :
               /\ wire[k].cmd = "update_digital_pin"
               /\ wire[k].mode = DIGITAL_INPUT
               /\ wire[k].pin \in DigitalPins

C12_Witness ==
    /\ phase = "Ready"
    /\ last.op = "__init__"
    /\ Len(wire) = 12
    /\ Len(setup_log) = 4

\* C13: construction goes open port, boot verification, firmware
\* verification, pin initialisation, each attempted at most once and only
\* after the one before it passed; no pin command is on the line unless both
\* verifications passed; a step that fails ends construction with its error,
\* with no pin command sent and no backend to call.
C13_SetupOrder ==
    /\ Len(setup_log) <= Len(SetupOrder)
    /\ \A k \in 1..Len(setup_log) :
           /\ setup_log[k].step = SetupOrder[k]
           /\ k < Len(setup_log) => setup_log[k].ok
    /\ (\E k \in 1..Len(wire) : wire[k].cmd \in
            {"update_digital_pin", "read_digital_pin", "read_analogue_pin"}) =>
           Passed("boot") /\ Passed("firmware")
    /\ phase \in {"Ready", "Closed"} => setup_log = FullSetup
    /\ (phase = "Failed") <=>
           (setup_log # <<>> /\ ~setup_log[Len(setup_log)].ok)
    /\ phase = "Failed" =>
           /\ wire = <<>>
           /\ last.op = "__init__"
           /\ last.outcome = setup_log[Len(setup_log)].error
           /\ last.outcome # OK
           /\ ~ENABLED Next

C13_Witness ==
    /\ phase = "Failed"
    /\ Len(setup_log) = 3
    /\ setup_log[3] = SetupStep("firmware", FirmwareTooOld)
    /\ wire = <<>>

\* C18: once the connection is released every later call fails, without a
\* value returned and without a command sent, get_gpio_pin_mode and
\* get_gpio_pin_digital_state included; and the backend stays closed.
C18_ClosedFailsFast ==
    [][/\ (phase' = "Closed" /\ last'.op # "close") =>
              last'.outcome # OK /\ wire' = <<>>
       /\ phase = "Closed" => phase' = "Closed"]_vars

\* C14: the wire methods hold the one lock for the whole exchange: a thread
\* is in an exchange exactly while it holds the lock, so at most one exchange
\* is in progress, a command is on the line only under the lock, and a caller
\* that finds the lock taken cannot start its exchange.
C14_OneExchangeUnderLock ==
    /\ \A t \in Threads : pc[t] = "exchange" <=> lock = t
    /\ Cardinality({t \in Threads : pc[t] = "exchange"}) <= 1
    /\ wire # <<>> <=> lock # 0
    /\ Len(wire) <= 1
    /\ \A t \in Threads :
           (pc[t] = "waiting" /\ lock # 0) => ~ENABLED Acquire(t)
    /\ \A t \in Threads :
           pc[t] # "idle" =>
               pending[t].op \in {"set_gpio_pin_mode", "write_gpio_pin_digital_state",
                                  "read_gpio_pin_digital_state",
                                  "read_gpio_pin_analogue_value"}

C14_Witness ==
    \E t, u \in Threads :
        /\ pc[t] = "exchange"
        /\ lock = t
        /\ pc[u] = "waiting"
        /\ wire # <<>>

\* C15: get_gpio_pin_mode and get_gpio_pin_digital_state never take the lock:
\* no thread ever waits for it or holds it inside one of them, and each
\* returns within the call, also while another thread is in an exchange.
C15_PureReadsNeverBlock ==
    /\ \A t \in Threads : pc[t] # "idle" => pending[t].op \notin PureReads
    /\ t_done.op \in PureReads => ~t_done.waited
    /\ \A t \in Threads : pc[t] = "idle" => ENABLED Enter(t)

C15_Witness ==
    /\ t_done.op = "get_gpio_pin_digital_state"
    /\ t_done.outcome = OK
    /\ t_done.busy
    /\ ~t_done.waited
    /\ lock # 0

\* The ports the filter accepts.
Matching == {k \in 1..Len(ports) : ports[k].arduino}

C17_FailureDoesNotAbort ==
    (disc_pc \in {"returned", "raised"}
     /\ \E j \in Matching : ports[j].fault # OK) =>
        /\ disc_pc = "returned"
        /\ \A j \in Matching :
               ports[j].fault = OK =>
                   \E b \in returned[Len(returned)] :
                       b.serial = ports[j].serial_number

\* C19: constructing an UltrasoundSensor succeeds exactly when both pins
\* declare ultrasound support and otherwise fails with
\* NotSupportedByComponentError, without any backend call; pulse() and
\* distance() never fail with that error and give the same outcome whatever
\* the pins' firmware modes are.
C19_CheckedAtConstruction ==
    /\ us_last.op = "construct" =>
           /\ us_last.outcome = OK <=>
                  (firmware_modes[us_last.trigger]
                   /\ firmware_modes[us_last.echo])
           /\ us_last.outcome \in {OK, NotSupportedByComponentError}
           /\ backend_calls = <<>>
           /\ us_last.outcome = OK =>
                  sensor = Sensor(us_last.trigger, us_last.echo,
                                  us_last.distance_mode)
    /\ us_last.op \in {"pulse", "distance"} =>
           us_last.outcome # NotSupportedByComponentError
    /\ sensor.built =>
           \A fm \in [SensorPins -> BOOLEAN], answer \in Answers :
               /\ pulse(sensor, fm, answer)
                      = pulse(sensor, firmware_modes, answer)
               /\ distance(sensor, fm, answer)
                      = distance(sensor, firmware_modes, answer)

C19_Witness ==
    /\ us_last.op = "construct"
    /\ us_last.outcome = NotSupportedByComponentError
    /\ firmware_modes[us_last.trigger]
    /\ ~firmware_modes[us_last.echo]
    /\ sensor.built

\* C20: distance() of a pulse-only sensor raises and calls no backend method;
\* pulse() of any sensor, and distance() of a sensor in distance mode, make
\* exactly one backend call with (trigger, echo) of the sensor and return
\* what the backend answered, an absent answer included.
C20_PulseAndDistance ==
    /\ (us_last.op = "distance" /\ ~us_last.distance_mode) =>
           /\ us_last.outcome = Exception
           /\ backend_calls = <<>>
    /\ (us_last.op = "pulse"
        \/ (us_last.op = "distance" /\ us_last.distance_mode)) =>
           /\ us_last.outcome = OK
           /\ Len(backend_calls) = 1
           /\ backend_calls[1].fn = (IF us_last.op = "pulse"
                                     THEN "get_ultrasound_pulse"
                                     ELSE "get_ultrasound_distance")
           /\ backend_calls[1].trigger = sensor.trigger
           /\ backend_calls[1].echo = sensor.echo
           /\ us_last.ret = backend_calls[1].answer

C20_Witness ==
    /\ us_last.op = "distance"
    /\ ~sensor.distance_mode
    /\ sensor.trigger # sensor.echo
    /\ us_last.outcome = Exception

\* C21: after get_ultrasound_pulse or get_ultrasound_distance with trigger
\* pin t and echo pin e, the stored mode of e is DIGITAL_INPUT; when t differs
\* from e the stored mode of t is DIGITAL_OUTPUT and its stored state is
\* false; whatever the two pins held before.
C21_ExchangeSetsModes ==
    last.op \in {"get_ultrasound_pulse", "get_ultrasound_distance"} =>
        /\ last.outcome = OK
        /\ digital_pins[last.value].mode = DIGITAL_INPUT
        /\ last.id # last.value =>
               digital_pins[last.id] = DigitalPinData(DIGITAL_OUTPUT, FALSE)

C21_Witness ==
    /\ last.op = "get_ultrasound_pulse"
    /\ last.id # last.value
    /\ mode_set[last.value] = DIGITAL_OUTPUT
    /\ mode_set[last.id] = DIGITAL_INPUT_PULLUP
    /\ digital_pins[last.value].mode = DIGITAL_INPUT
    /\ digital_pins[last.id].mode = DIGITAL_OUTPUT

\* C22: with threads sharing the backend, the command a
\* write_gpio_pin_digital_state call puts on the line is issued only while
\* the stored mode of its pin is DIGITAL_OUTPUT, whatever set_gpio_pin_mode
\* calls the other threads make on that pin.
C22_WriteOnlyWhileOutput ==
    \A t \in Threads :
        (pc[t] = "exchange"
         /\ pending[t].op = "write_gpio_pin_digital_state") =>
            /\ wire[1].pin = pending[t].id
            /\ wire[1].mode = DIGITAL_OUTPUT

\* C23: whenever neither the constructor's boot verification nor an exchange
\* of a thread is in progress the lock is free, also after boot verification
\* or an exchange has failed; a thread waiting for the line can then take it.
C23_LockReleased ==
    /\ (phase # "Booting" /\ \A t \in Threads : pc[t] # "exchange") =>
           /\ lock = 0
           /\ \A t \in Threads : pc[t] = "waiting" => ENABLED Acquire(t)
    /\ phase = "Booting" => lock = Constructor
    /\ \A t \in Threads : pc[t] = "exchange" => lock = t

C23_Witness ==
    /\ phase = "Failed"
    /\ Len(setup_log) = 2
    /\ setup_log[2] = SetupStep("boot", BoardUnresponsive)
    /\ lock = 0

\* C24: from the creation of the pin table on, through construction and
\* every call that succeeds or fails, the table has exactly the keys 2..13
\* and every stored mode is DIGITAL_INPUT, DIGITAL_INPUT_PULLUP or
\* DIGITAL_OUTPUT.
C24_TableShape ==
    phase \in {"AwaitingBoot", "VerifyingFirmware", "InitialisingPins", "Ready"} =>
        /\ DOMAIN digital_pins = 2..13
        /\ \A p \in DOMAIN digital_pins :
               /\ digital_pins[p].mode \in
                      {DIGITAL_INPUT, DIGITAL_INPUT_PULLUP, DIGITAL_OUTPUT}
               /\ digital_pins[p].state \in BOOLEAN

C24_Witness ==
    /\ phase = "Ready"
    /\ last.op = "write_gpio_pin_digital_state"
    /\ last.id < FIRST_DIGITAL_PIN
    /\ last.outcome # OK
    /\ \E p \in DigitalPins : digital_pins[p].mode = DIGITAL_OUTPUT
    /\ \E p \in DigitalPins : digital_pins[p].mode = DIGITAL_INPUT_PULLUP

\* C25: a call changes only what it names. The stored state of a pin changes
\* only in a successful write_gpio_pin_digital_state on that pin (set_led_state
\* writes pin 13) and the stored mode only in a set_gpio_pin_mode on that pin;
\* set_gpio_pin_mode changes no state and write_gpio_pin_digital_state no
\* mode. So a state written to an output pin is still stored after the pin is
\* switched to an input mode and back.
C25_FrameOfSetAndWrite ==
    [][/\ \A q \in DigitalPins :
              /\ digital_pins'[q].state # digital_pins[q].state =>
                     /\ IsWrite(last'.op)
                     /\ last'.outcome = OK
                     /\ last'.state = digital_pins'[q].state
                     /\ q = (IF last'.op = "set_led_state"
                             THEN LED_PIN ELSE last'.id)
              /\ digital_pins'[q].mode # digital_pins[q].mode =>
                     /\ last'.op = "set_gpio_pin_mode"
                     /\ last'.id = q
                     /\ last'.pin_mode = digital_pins'[q].mode
       /\ last'.op = "set_gpio_pin_mode" =>
              \A q \in DigitalPins :
                  /\ digital_pins'[q].state = digital_pins[q].state
                  /\ q # last'.id => digital_pins'[q] = digital_pins[q]
       /\ last'.op = "write_gpio_pin_digital_state" =>
              \A q \in DigitalPins :
                  /\ digital_pins'[q].mode = digital_pins[q].mode
                  /\ q # last'.id => digital_pins'[q] = digital_pins[q]]_vars

C25_Witness ==
    /\ last.op = "set_gpio_pin_mode"
    /\ last.outcome = OK
    /\ last.id \in DigitalPins
    /\ last.pin_mode = DIGITAL_INPUT
    /\ digital_pins[last.id] = DigitalPinData(DIGITAL_INPUT, TRUE)
    /\ \E q \in DigitalPins :
           q # last.id /\ digital_pins[q] = DigitalPinData(DIGITAL_OUTPUT, TRUE)

\* C26: on an identifier below the analogue threshold that has no pin record
\* (0 and 1), set_gpio_pin_mode with a digital mode, the digital write, both
\* digital reads and get_gpio_pin_mode raise KeyError, which is neither
\* NotSupportedByHardwareError nor ValueError; they send nothing and leave the
\* pin table, its keys included, as it was.
C26_NoRecordIsLookupError ==
    [][(/\ last'.id < FIRST_ANALOGUE_PIN
        /\ last'.id \notin DigitalPins
        /\ \/ last'.op \in {"write_gpio_pin_digital_state",
                            "get_gpio_pin_digital_state",
                            "read_gpio_pin_digital_state",
                            "get_gpio_pin_mode"}
           \/ /\ last'.op = "set_gpio_pin_mode"
              /\ last'.pin_mode \in digital_pin_modes) =>
           /\ last'.outcome = KeyError
           /\ last'.outcome \notin {NotSupportedByHardwareError, ValueError}
           /\ NoEffect
           /\ DOMAIN digital_pins' = DigitalPins
           /\ last'.id \in {0, 1}]_vars

C26_Witness ==
    /\ last.op = "read_gpio_pin_digital_state"
    /\ last.id = 1
    /\ last.outcome = KeyError
    /\ wire = <<>>
    /\ configured

\* C27: the command of set_gpio_pin_mode carries the requested mode and the
\* command of write_gpio_pin_digital_state the requested state: the table
\* holds the new value when the command is issued. When the wire method then
\* raises, the new value stays in the table, and get_gpio_pin_mode and
\* get_gpio_pin_digital_state report it.
C27_StoredBeforeSent ==
    /\ (last.op = "set_gpio_pin_mode" /\ wire # <<>>) =>
           /\ Len(wire) = 1
           /\ wire[1].pin = last.id
           /\ wire[1].mode = last.pin_mode
    /\ (last.op = "write_gpio_pin_digital_state" /\ wire # <<>>) =>
           /\ Len(wire) = 1
           /\ wire[1].pin = last.id
           /\ wire[1].state = last.state
    /\ (last.op = "set_gpio_pin_mode" /\ last.outcome = SerialException) =>
           /\ wire # <<>>
           /\ digital_pins[last.id].mode = last.pin_mode
           /\ get_gpio_pin_mode(digital_pins, last.id).outcome = OK
           /\ get_gpio_pin_mode(digital_pins, last.id).ret_mode = last.pin_mode
    /\ (last.op = "write_gpio_pin_digital_state"
        /\ last.outcome = SerialException) =>
           /\ wire # <<>>
           /\ digital_pins[last.id].state = last.state
           /\ get_gpio_pin_digital_state(digital_pins, last.id).outcome = OK
           /\ get_gpio_pin_digital_state(digital_pins, last.id).ret_state
                  = last.state

C27_Witness ==
    /\ last.op = "set_gpio_pin_mode"
    /\ last.outcome = SerialException
    /\ last.pin_mode = DIGITAL_INPUT_PULLUP
    /\ mode_set[last.id] = DIGITAL_OUTPUT
    /\ digital_pins[last.id].mode = DIGITAL_INPUT_PULLUP

\* C28: power_on() asks the backend once per output of the group, in the
\* group's order, with that output's identifier and enabled = true, and
\* power_off() likewise with false; when the call returns, every output of
\* the group reports the requested value. When the backend raises for an
\* output, that request is the last one made: the outputs before it report
\* the new value, that output and those after it report what they did before
\* the call. Outputs outside the group keep their value.
C28_GroupSwitch ==
    [][group_call'.op \in {"power_on", "power_off"} =>
          LET n == Len(requests')
              new_state == (group_call'.op = "power_on")
          IN  /\ group_call'.new_state = new_state
              /\ n <= Len(outputs)
              /\ \A k \in 1..n :
                     requests'[k] = PowerRequest(outputs[k], new_state)
              /\ group_call'.outcome = OK =>
                     /\ n = Len(outputs)
                     /\ \A k \in 1..Len(outputs) :
                            is_enabled(enabled', outputs[k]) = new_state
              /\ group_call'.outcome # OK =>
                     /\ n >= 1
                     /\ \A k \in 1..(n - 1) :
                            is_enabled(enabled', outputs[k]) = new_state
                     /\ \A k \in n..Len(outputs) :
                            is_enabled(enabled', outputs[k])
                                = is_enabled(enabled, outputs[k])
              /\ \A i \in OutputIds :
                     (\A k \in 1..Len(outputs) : outputs[k] # i) =>
                         enabled'[i] = enabled[i]]_vars

C28_Witness ==
    /\ group_call.op = "power_off"
    /\ group_call.outcome # OK
    /\ Len(outputs) = 3
    /\ Len(requests) = 2
    /\ ~is_enabled(enabled, outputs[1])
    /\ is_enabled(enabled, outputs[2])
    /\ is_enabled(enabled, outputs[3])

====
